---- MODULE Spec2Model ----
(***************************************************************************)
(* Block lexers of robot.parsing.lexer (blocklexers.py): the composite     *)
(* lexer tree built by feeding statements to a FileLexer.                  *)
(*                                                                         *)
(* A statement is a sequence of token references.  A token reference is a  *)
(* record [id, value]: id is the identity of the Python Token object and   *)
(* value its immutable text.  The mutable attributes of all Token objects  *)
(* (type, _add_eos_before, _add_eos_after) live in the variable tokens,    *)
(* keyed by id and beside the text, because the lexers mutate tokens that  *)
(* they also remove from the statements they keep.                         *)
(*                                                                         *)
(* A lexer object is a record [cls, lexers, _block_level, _name_seen,      *)
(* statement]; a field a class does not have keeps its initial value.      *)
(***************************************************************************)
EXTENDS Integers, Sequences, FiniteSets, TLC

VARIABLES
    tree,      \* the root FileLexer object with everything it owns
    tokens,    \* id -> mutable attributes of every Token created so far
    calls,     \* the BlockLexer.input calls made by the last statement fed
    raised,    \* TRUE once a BlockLexer.lexer_for has raised TypeError
    fed,       \* number of statements fed to the root so far
    lexed,     \* the lex() calls made, in order, once the root's lex() has run
    error      \* the exception input ended by, NoError when it returned

vars == <<tree, tokens, calls, raised, fed, lexed, error>>

(***************************************************************************)
(* Bounds of the model.                                                    *)
(***************************************************************************)
MaxStatements == 3
MaxBody == 4
MaxInline == 4
MaxLexBody == 3
MaxRaise == 2
MaxIndent == 3
MaxIndentLines == 2
\* statements fed after the name line of a test or keyword with open blocks
MaxScope == 5

(***************************************************************************)
(* Token text.  TLC cannot index a string, so each text of the vocabulary  *)
(* is given with its characters and the string tests of the code are       *)
(* computed on the characters.                                             *)
(***************************************************************************)
Chars(v) ==
    CASE v = ""            -> <<>>
      [] v = "*Settings"   -> <<"*","S","e","t","t","i","n","g","s">>
      [] v = "*Variables"  -> <<"*","V","a","r","i","a","b","l","e","s">>
      [] v = "*Test Cases" -> <<"*","T","e","s","t"," ","C","a","s","e","s">>
      [] v = "*Tasks"      -> <<"*","T","a","s","k","s">>
      [] v = "*Keywords"   -> <<"*","K","e","y","w","o","r","d","s">>
      [] v = "*Comments"   -> <<"*","C","o","m","m","e","n","t","s">>
      [] v = "*Bogus"      -> <<"*","B","o","g","u","s">>
      [] v = "Name"        -> <<"N","a","m","e">>
      [] v = "Log"         -> <<"L","o","g">>
      [] v = "[Setup]"     -> <<"[","S","e","t","u","p","]">>
      [] v = "${x}"        -> <<"$","{","x","}">>
      [] v = "${x}="       -> <<"$","{","x","}","=">>
      [] v = "${y}"        -> <<"$","{","y","}">>
      [] v = "FOR"         -> <<"F","O","R">>
      [] v = "WHILE"       -> <<"W","H","I","L","E">>
      [] v = "TRY"         -> <<"T","R","Y">>
      [] v = "EXCEPT"      -> <<"E","X","C","E","P","T">>
      [] v = "FINALLY"     -> <<"F","I","N","A","L","L","Y">>
      [] v = "END"         -> <<"E","N","D">>
      [] v = "IF"          -> <<"I","F">>
      [] v = "ELSE"        -> <<"E","L","S","E">>
      [] v = "ELSE IF"     -> <<"E","L","S","E"," ","I","F">>
      [] v = "ELSE  IF"    -> <<"E","L","S","E"," "," ","I","F">>
      [] v = "RETURN"      -> <<"R","E","T","U","R","N">>
      [] v = "BREAK"       -> <<"B","R","E","A","K">>
      [] v = "CONTINUE"    -> <<"C","O","N","T","I","N","U","E">>

\* str.startswith(c) for a one-character prefix c
startswith(v, c) == Len(Chars(v)) > 0 /\ Chars(v)[1] = c

\* truth value of a str: non-empty
truthy(v) == Len(Chars(v)) > 0

\* robot.utils.normalize_whitespace: every run of spaces becomes one space
RECURSIVE collapse(_, _)
collapse(cs, i) ==
    IF i > Len(cs) THEN <<>>
    ELSE IF cs[i] = " " /\ i > 1 /\ cs[i - 1] = " " THEN collapse(cs, i + 1)
    ELSE <<cs[i]>> \o collapse(cs, i + 1)

normalize_whitespace(v) == collapse(Chars(v), 1)

\* robot.variables.is_assign(value, allow_assign_mark=True): ${x} or ${x}=
is_assign(v) ==
    LET cs == Chars(v)
        n  == Len(cs)
    IN  /\ n >= 3
        /\ cs[1] \in {"$", "@", "&"}
        /\ cs[2] = "{"
        /\ \/ cs[n] = "}"
           \/ n >= 4 /\ cs[n] = "=" /\ cs[n - 1] = "}"

Last(s) == s[Len(s)]

(***************************************************************************)
(* Tokens.                                                                 *)
(***************************************************************************)
TESTCASE_NAME == "TESTCASE NAME"
KEYWORD_NAME  == "KEYWORD NAME"

\* a Token as the upstream tokenizer hands it over: no type, no markers
Token(v) ==
    [value |-> v, type |-> "unset", _add_eos_before |-> FALSE, _add_eos_after |-> FALSE]

\* the n-th statement fed, with the texts vs: fresh Token objects
Statement(n, vs) == [i \in 1..Len(vs) |-> [id |-> <<n, i>>, value |-> vs[i]]]

NewTokens(n, vs) == [id \in {<<n, i>> : i \in 1..Len(vs)} |-> Token(vs[id[2]])]

(***************************************************************************)
(* The classes.                                                            *)
(***************************************************************************)
SectionLexers ==
    {"SettingSectionLexer", "VariableSectionLexer", "TestCaseSectionLexer",
     "TaskSectionLexer", "KeywordSectionLexer", "CommentSectionLexer",
     "ImplicitCommentSectionLexer", "ErrorSectionLexer"}

TestOrKeywordLexers == {"TestCaseLexer", "KeywordLexer"}

NestedBlockLexers == {"ForLexer", "WhileLexer", "TryLexer", "IfLexer"}

BlockLexers ==
    {"BlockLexer", "FileLexer", "InlineIfLexer"} \cup SectionLexers \cup TestOrKeywordLexers
        \cup NestedBlockLexers

\* a new object of class cls: BlockLexer.__init__, NestedBlockLexer.__init__,
\* TestOrKeywordLexer._name_seen, StatementLexer.__init__
New(cls) ==
    [cls |-> cls, lexers |-> <<>>, _block_level |-> 0, _name_seen |-> FALSE,
     statement |-> <<>>]

(***************************************************************************)
(* The context's section predicates (context.py) and the statement lexers' *)
(* class predicates (statementlexers.py).                                  *)
(***************************************************************************)
setting_section(statement)   == statement[1].value = "*Settings"
variable_section(statement)  == statement[1].value = "*Variables"
test_case_section(statement) == statement[1].value = "*Test Cases"
task_section(statement)      == statement[1].value = "*Tasks"
keyword_section(statement)   == statement[1].value = "*Keywords"
comment_section(statement)   == statement[1].value = "*Comments"

\* Lexer.handles, inherited by every class that does not override it
Lexer_handles(statement) == TRUE

SectionHeaderLexer_handles(statement) == startswith(statement[1].value, "*")

TestOrKeywordSettingLexer_handles(statement) ==
    LET marker == Chars(statement[1].value)
    IN  Len(marker) > 0 /\ marker[1] = "[" /\ marker[Len(marker)] = "]"

ForHeaderLexer_handles(statement)     == statement[1].value = "FOR"
WhileHeaderLexer_handles(statement)   == statement[1].value = "WHILE"
TryHeaderLexer_handles(statement)     == statement[1].value = "TRY"
ExceptHeaderLexer_handles(statement)  == statement[1].value = "EXCEPT"
FinallyHeaderLexer_handles(statement) == statement[1].value = "FINALLY"
EndLexer_handles(statement)           == statement[1].value = "END"
ReturnLexer_handles(statement)        == statement[1].value = "RETURN"
ContinueLexer_handles(statement)      == statement[1].value = "CONTINUE"
BreakLexer_handles(statement)         == statement[1].value = "BREAK"
ElseHeaderLexer_handles(statement)    == statement[1].value = "ELSE"

IfHeaderLexer_handles(statement) ==
    statement[1].value = "IF" /\ Len(statement) <= 2

ElseIfHeaderLexer_handles(statement) ==
    normalize_whitespace(statement[1].value) = Chars("ELSE IF")

\* IF as the first token that is not an assignment
InlineIfHeaderLexer_handles(statement) ==
    \E i \in 1..Len(statement) :
        /\ statement[i].value = "IF"
        /\ \A j \in 1..(i - 1) : is_assign(statement[j].value)

\* StatementLexer.accepts_more and StatementLexer.input
StatementLexer_accepts_more(self, statement) == FALSE

StatementLexer_input(self, statement) == [self EXCEPT !.statement = statement]

(***************************************************************************)
(* handles of the block lexers.                                            *)
(***************************************************************************)
SettingSectionLexer_handles(statement)  == setting_section(statement)
VariableSectionLexer_handles(statement) == variable_section(statement)
TestCaseSectionLexer_handles(statement) == test_case_section(statement)
TaskSectionLexer_handles(statement)     == task_section(statement)
KeywordSectionLexer_handles(statement)  == keyword_section(statement)
CommentSectionLexer_handles(statement)  == comment_section(statement)

ImplicitCommentSectionLexer_handles(statement) == TRUE

ErrorSectionLexer_handles(statement) ==
    Len(statement) > 0 /\ startswith(statement[1].value, "*")

ForLexer_handles(statement)   == ForHeaderLexer_handles(statement)
WhileLexer_handles(statement) == WhileHeaderLexer_handles(statement)
TryLexer_handles(statement)   == TryHeaderLexer_handles(statement)
IfLexer_handles(statement)    == IfHeaderLexer_handles(statement)

InlineIfLexer_handles(statement) ==
    IF Len(statement) <= 2 THEN FALSE
    ELSE InlineIfHeaderLexer_handles(statement)

\* cls.handles(statement, self.ctx)
handles(cls, statement) ==
    CASE cls = "SettingSectionLexer"         -> SettingSectionLexer_handles(statement)
      [] cls = "VariableSectionLexer"        -> VariableSectionLexer_handles(statement)
      [] cls = "TestCaseSectionLexer"        -> TestCaseSectionLexer_handles(statement)
      [] cls = "TaskSectionLexer"            -> TaskSectionLexer_handles(statement)
      [] cls = "KeywordSectionLexer"         -> KeywordSectionLexer_handles(statement)
      [] cls = "CommentSectionLexer"         -> CommentSectionLexer_handles(statement)
      [] cls = "ErrorSectionLexer"           -> ErrorSectionLexer_handles(statement)
      [] cls = "ImplicitCommentSectionLexer" -> ImplicitCommentSectionLexer_handles(statement)
      [] cls = "ForLexer"                    -> ForLexer_handles(statement)
      [] cls = "WhileLexer"                  -> WhileLexer_handles(statement)
      [] cls = "TryLexer"                    -> TryLexer_handles(statement)
      [] cls = "IfLexer"                     -> IfLexer_handles(statement)
      [] cls = "InlineIfLexer"               -> InlineIfLexer_handles(statement)
      [] cls \in {"SettingSectionHeaderLexer", "VariableSectionHeaderLexer",
                  "TestCaseSectionHeaderLexer", "TaskSectionHeaderLexer",
                  "KeywordSectionHeaderLexer", "CommentSectionHeaderLexer",
                  "ErrorSectionHeaderLexer"} -> SectionHeaderLexer_handles(statement)
      [] cls = "TestOrKeywordSettingLexer"   -> TestOrKeywordSettingLexer_handles(statement)
      [] cls = "ForHeaderLexer"              -> ForHeaderLexer_handles(statement)
      [] cls = "WhileHeaderLexer"            -> WhileHeaderLexer_handles(statement)
      [] cls = "TryHeaderLexer"              -> TryHeaderLexer_handles(statement)
      [] cls = "ExceptHeaderLexer"           -> ExceptHeaderLexer_handles(statement)
      [] cls = "FinallyHeaderLexer"          -> FinallyHeaderLexer_handles(statement)
      [] cls = "EndLexer"                    -> EndLexer_handles(statement)
      [] cls = "ReturnLexer"                 -> ReturnLexer_handles(statement)
      [] cls = "ContinueLexer"               -> ContinueLexer_handles(statement)
      [] cls = "BreakLexer"                  -> BreakLexer_handles(statement)
      [] cls = "IfHeaderLexer"               -> IfHeaderLexer_handles(statement)
      [] cls = "InlineIfHeaderLexer"         -> InlineIfHeaderLexer_handles(statement)
      [] cls = "ElseIfHeaderLexer"           -> ElseIfHeaderLexer_handles(statement)
      [] cls = "ElseHeaderLexer"             -> ElseHeaderLexer_handles(statement)
      [] OTHER                               -> Lexer_handles(statement)

(***************************************************************************)
(* lexer_classes of the block lexers, in the order the code returns them.  *)
(***************************************************************************)
BlockLexer_lexer_classes == <<>>

FileLexer_lexer_classes ==
    <<"SettingSectionLexer", "VariableSectionLexer",
      "TestCaseSectionLexer", "TaskSectionLexer",
      "KeywordSectionLexer", "CommentSectionLexer",
      "ErrorSectionLexer", "ImplicitCommentSectionLexer">>

SettingSectionLexer_lexer_classes  == <<"SettingSectionHeaderLexer", "SettingLexer">>
VariableSectionLexer_lexer_classes == <<"VariableSectionHeaderLexer", "VariableLexer">>
TestCaseSectionLexer_lexer_classes == <<"TestCaseSectionHeaderLexer", "TestCaseLexer">>
TaskSectionLexer_lexer_classes     == <<"TaskSectionHeaderLexer", "TestCaseLexer">>
KeywordSectionLexer_lexer_classes  == <<"KeywordSectionHeaderLexer", "KeywordLexer">>
CommentSectionLexer_lexer_classes  == <<"CommentSectionHeaderLexer", "CommentLexer">>
ImplicitCommentSectionLexer_lexer_classes == <<"ImplicitCommentLexer">>
\* the two classes in the other order (mutation)
ErrorSectionLexer_lexer_classes_swapped == <<"CommentLexer", "ErrorSectionHeaderLexer">>
ErrorSectionLexer_lexer_classes    == <<"ErrorSectionHeaderLexer", "CommentLexer">>

TestOrKeywordLexer_lexer_classes ==
    <<"TestOrKeywordSettingLexer", "BreakLexer", "ContinueLexer",
      "ForLexer", "InlineIfLexer", "IfLexer", "ReturnLexer", "TryLexer",
      "WhileLexer", "KeywordCallLexer">>

ForLexer_lexer_classes ==
    <<"ForHeaderLexer", "InlineIfLexer", "IfLexer", "TryLexer", "WhileLexer", "EndLexer",
      "ReturnLexer", "ContinueLexer", "BreakLexer", "KeywordCallLexer">>

WhileLexer_lexer_classes ==
    <<"WhileHeaderLexer", "ForLexer", "InlineIfLexer", "IfLexer", "TryLexer", "EndLexer",
      "ReturnLexer", "ContinueLexer", "BreakLexer", "KeywordCallLexer">>

TryLexer_lexer_classes ==
    <<"TryHeaderLexer", "ExceptHeaderLexer", "ElseHeaderLexer", "FinallyHeaderLexer",
      "ForLexer", "InlineIfLexer", "IfLexer", "WhileLexer", "EndLexer", "ReturnLexer",
      "BreakLexer", "ContinueLexer", "KeywordCallLexer">>

IfLexer_lexer_classes ==
    <<"InlineIfLexer", "IfHeaderLexer", "ElseIfHeaderLexer", "ElseHeaderLexer",
      "ForLexer", "TryLexer", "WhileLexer", "EndLexer", "ReturnLexer", "ContinueLexer",
      "BreakLexer", "KeywordCallLexer">>

InlineIfLexer_lexer_classes ==
    <<"InlineIfHeaderLexer", "ElseIfHeaderLexer", "ElseHeaderLexer",
      "ReturnLexer", "ContinueLexer", "BreakLexer", "KeywordCallLexer">>

\* self.lexer_classes()
lexer_classes(self) ==
    CASE self.cls = "FileLexer"                   -> FileLexer_lexer_classes
      [] self.cls = "SettingSectionLexer"         -> SettingSectionLexer_lexer_classes
      [] self.cls = "VariableSectionLexer"        -> VariableSectionLexer_lexer_classes
      [] self.cls = "TestCaseSectionLexer"        -> TestCaseSectionLexer_lexer_classes
      [] self.cls = "TaskSectionLexer"            -> TaskSectionLexer_lexer_classes
      [] self.cls = "KeywordSectionLexer"         -> KeywordSectionLexer_lexer_classes
      [] self.cls = "CommentSectionLexer"         -> CommentSectionLexer_lexer_classes
      [] self.cls = "ImplicitCommentSectionLexer" -> ImplicitCommentSectionLexer_lexer_classes
      [] self.cls = "ErrorSectionLexer"           -> ErrorSectionLexer_lexer_classes
      [] self.cls \in TestOrKeywordLexers         -> TestOrKeywordLexer_lexer_classes
      [] self.cls = "ForLexer"                    -> ForLexer_lexer_classes
      [] self.cls = "WhileLexer"                  -> WhileLexer_lexer_classes
      [] self.cls = "TryLexer"                    -> TryLexer_lexer_classes
      [] self.cls = "IfLexer"                     -> IfLexer_lexer_classes
      [] self.cls = "InlineIfLexer"               -> InlineIfLexer_lexer_classes
      [] OTHER                                    -> BlockLexer_lexer_classes

\* BlockLexer.lexer_for: the first class that handles the statement, or
\* "TypeError" when the loop ends without one
\* the last class that handles the statement, not the first (mutation)
RECURSIVE last_handling(_, _, _)
last_handling(classes, i, statement) ==
    IF i > Len(classes) THEN "TypeError"
    ELSE IF last_handling(classes, i + 1, statement) # "TypeError"
    THEN last_handling(classes, i + 1, statement)
    ELSE IF handles(classes[i], statement) THEN classes[i]
    ELSE "TypeError"

\* a CommentLexer when no class handles the statement, no TypeError (mutation)
RECURSIVE first_handling_or_comment(_, _, _)
first_handling_or_comment(classes, i, statement) ==
    IF i > Len(classes) THEN "CommentLexer"
    ELSE IF handles(classes[i], statement) THEN classes[i]
    ELSE first_handling_or_comment(classes, i + 1, statement)

RECURSIVE first_handling(_, _, _)
first_handling(classes, i, statement) ==
    IF i > Len(classes) THEN "TypeError"
    ELSE IF handles(classes[i], statement) THEN classes[i]
    ELSE first_handling(classes, i + 1, statement)

lexer_for(self, statement) == first_handling(lexer_classes(self), 1, statement)

(***************************************************************************)
(* accepts_more.                                                           *)
(***************************************************************************)
BlockLexer_accepts_more(self, statement) == TRUE

\* the override left out, BlockLexer.accepts_more inherited (mutation)
SectionLexer_accepts_more_inherited(self, statement) == TRUE

SectionLexer_accepts_more(self, statement) ==
    ~startswith(statement[1].value, "*")

\* the override left out, BlockLexer.accepts_more inherited (mutation)
TestOrKeywordLexer_accepts_more_inherited(self, statement) == TRUE

TestOrKeywordLexer_accepts_more(self, statement) ==
    ~truthy(statement[1].value)

\* >= in place of > (mutation)
NestedBlockLexer_accepts_more_ge(self, statement) == self._block_level >= 0

NestedBlockLexer_accepts_more(self, statement) == self._block_level > 0

InlineIfLexer_accepts_more(self, statement) == FALSE

\* lexer.accepts_more(statement), by the class of lexer
accepts_more(self, statement) ==
    CASE self.cls \in SectionLexers       -> SectionLexer_accepts_more(self, statement)
      [] self.cls \in TestOrKeywordLexers -> TestOrKeywordLexer_accepts_more(self, statement)
      [] self.cls \in NestedBlockLexers   -> NestedBlockLexer_accepts_more(self, statement)
      [] self.cls = "InlineIfLexer"       -> InlineIfLexer_accepts_more(self, statement)
      [] self.cls \in {"FileLexer", "BlockLexer"}
                                          -> BlockLexer_accepts_more(self, statement)
      [] OTHER                            -> StatementLexer_accepts_more(self, statement)

(***************************************************************************)
(* input.  Every input operator returns a record                           *)
(*   self    the lexer after the call,                                     *)
(*   ret     the class of the object the call returns ("None" for none),   *)
(*   tokens  the Token attributes after the call,                          *)
(*   calls   the BlockLexer.input calls made, each with the path of the    *)
(*           lexer called (child indices below self) and its argument,     *)
(*   raised  whether the call ended by TypeError.                          *)
(***************************************************************************)
RECURSIVE input(_, _, _)

\* Body(v) with v evaluated once: the value of "LET x == v IN Body(x)"
Let(v, Body(_)) == CHOOSE y \in {Body(x) : x \in {v}} : TRUE

Below(i, cs) == [k \in 1..Len(cs) |-> [cs[k] EXCEPT !.path = <<i>> \o @]]

\* the test of line 47, without the accepts_more call (mutation)
open_lexer_any(self, statement) == self.lexers # <<>>

\* the test of line 47: the last child exists and accepts the statement
open_lexer(self, statement) ==
    self.lexers # <<>> /\ accepts_more(Last(self.lexers), statement)

\* list.insert(0, lexer) in place of list.append(lexer) (mutation)
insert_first(lexers, lexer) == <<lexer>> \o lexers

\* self.lexers.append(lexer)
append(lexers, lexer) == Append(lexers, lexer)

\* lines 47-50: the class of the lexer chosen, or "TypeError", and whether
\* it is the last child (more) or a new one
chosen(self, statement) ==
    IF open_lexer(self, statement)
    THEN [more |-> TRUE, cls |-> Last(self.lexers).cls]
    ELSE [more |-> FALSE, cls |-> lexer_for(self, statement)]

\* no exception
NoError == [type |-> "None", name |-> "", statement |-> <<>>]

\* lines 60-61: the TypeError, with the two values its message is made of
TypeError(self, statement) ==
    [type |-> "TypeError", name |-> self.cls, statement |-> statement]

BlockLexer_input(self, statement, toks) ==
    Let(chosen(self, statement), LAMBDA c :
        IF c.cls = "TypeError"
        THEN [self |-> self, ret |-> "None", tokens |-> toks,
              calls |-> <<[path |-> <<>>, statement |-> statement]>>, raised |-> TRUE,
              error |-> TypeError(self, statement)]
        ELSE
          Let(input(IF c.more THEN Last(self.lexers) ELSE New(c.cls), statement, toks),
              LAMBDA r :
                [self   |-> [self EXCEPT !.lexers =
                                IF c.more THEN [@ EXCEPT ![Len(@)] = r.self]
                                ELSE append(@, r.self)],
                 ret    |-> c.cls,
                 tokens |-> r.tokens,
                 calls  |-> <<[path |-> <<>>, statement |-> statement]>>
                            \o Below(IF c.more THEN Len(self.lexers)
                                     ELSE Len(self.lexers) + 1, r.calls),
                 raised |-> r.raised,
                 error  |-> r.error]))

name_type(self) ==
    IF self.cls = "TestCaseLexer" THEN TESTCASE_NAME ELSE KEYWORD_NAME

\* an if in place of the while: one token popped at most (mutation)
pop_indentation_once(statement, toks) ==
    IF statement # <<>> /\ ~truthy(statement[1].value)
    THEN [statement |-> Tail(statement),
          tokens    |-> [toks EXCEPT ![statement[1].id].type = "None"]]
    ELSE [statement |-> statement, tokens |-> toks]

\* the while loop of _handle_name_or_indentation
RECURSIVE pop_indentation(_, _)
pop_indentation(statement, toks) ==
    IF statement # <<>> /\ ~truthy(statement[1].value)
    THEN pop_indentation(Tail(statement),
                         [toks EXCEPT ![statement[1].id].type = "None"])
    ELSE [statement |-> statement, tokens |-> toks]

\* _add_eos_after set without the "if statement" test (mutation)
_handle_name_always_eos(self, statement, toks) ==
    IF ~self._name_seen
    THEN [self      |-> [self EXCEPT !._name_seen = TRUE],
          statement |-> Tail(statement),
          tokens    |-> [toks EXCEPT
                           ![statement[1].id].type = name_type(self),
                           ![statement[1].id]._add_eos_after = TRUE]]
    ELSE Let(pop_indentation(statement, toks), LAMBDA p :
             [self |-> self, statement |-> p.statement, tokens |-> p.tokens])

\* returns self, the statement as the method leaves it, and the tokens
_handle_name_or_indentation(self, statement, toks) ==
    IF ~self._name_seen
    THEN [self      |-> [self EXCEPT !._name_seen = TRUE],
          statement |-> Tail(statement),
          tokens    |-> [toks EXCEPT
                           ![statement[1].id].type = name_type(self),
                           ![statement[1].id]._add_eos_after =
                               IF Tail(statement) # <<>> THEN TRUE ELSE @]]
    ELSE Let(pop_indentation(statement, toks), LAMBDA p :
             [self |-> self, statement |-> p.statement, tokens |-> p.tokens])

TestOrKeywordLexer_input(self, statement, toks) ==
    Let(_handle_name_or_indentation(self, statement, toks), LAMBDA h :
        IF h.statement # <<>>
        THEN [BlockLexer_input(h.self, h.statement, h.tokens) EXCEPT !.ret = "None"]
        ELSE [self |-> h.self, ret |-> "None", tokens |-> h.tokens,
              calls |-> <<>>, raised |-> FALSE, error |-> NoError])

\* a child block lexer counted like a header lexer (mutation)
level_change_counting_blocks(lexer) ==
    (IF lexer \in {"ForHeaderLexer", "IfHeaderLexer", "TryHeaderLexer",
                   "WhileHeaderLexer", "ForLexer", "IfLexer", "TryLexer",
                   "WhileLexer"} THEN 1 ELSE 0)
    - (IF lexer = "EndLexer" THEN 1 ELSE 0)

\* WhileHeaderLexer left out of the isinstance tuple (mutation)
level_change_no_while(lexer) ==
    (IF lexer \in {"ForHeaderLexer", "IfHeaderLexer", "TryHeaderLexer"} THEN 1 ELSE 0)
    - (IF lexer = "EndLexer" THEN 1 ELSE 0)

\* lines 234-238: the change of _block_level for the lexer BlockLexer.input returned
level_change(lexer) ==
    (IF lexer \in {"ForHeaderLexer", "IfHeaderLexer", "TryHeaderLexer",
                   "WhileHeaderLexer"} THEN 1 ELSE 0)
    - (IF lexer = "EndLexer" THEN 1 ELSE 0)

NestedBlockLexer_input(self, statement, toks) ==
    Let(BlockLexer_input(self, statement, toks), LAMBDA r :
        IF r.raised THEN [r EXCEPT !.ret = "None"]
        ELSE [r EXCEPT !.self._block_level = @ + level_change(r.ret),
                       !.ret = "None"])

\* the ELSE branch without the "token is not statement[-1]" test (mutation)
split_token_else_always_eos_after(statement, i, s) ==
    LET token    == statement[i]
        not_last == statement[i].id # Last(statement).id
    IN  IF s.expect_condition
        THEN [current |-> <<>>, expect_condition |-> FALSE,
              parts   |-> Append(s.parts, Append(s.current, token)),
              tokens  |-> IF not_last
                          THEN [s.tokens EXCEPT ![token.id]._add_eos_after = TRUE]
                          ELSE s.tokens]
        ELSE IF token.value = "IF"
        THEN [s EXCEPT !.current = Append(@, token), !.expect_condition = TRUE]
        ELSE IF normalize_whitespace(token.value) = Chars("ELSE IF")
        THEN [current |-> <<token>>, expect_condition |-> TRUE,
              parts   |-> Append(s.parts, s.current),
              tokens  |-> [s.tokens EXCEPT ![token.id]._add_eos_before = TRUE]]
        ELSE IF token.value = "ELSE"
        THEN [current |-> <<>>, expect_condition |-> FALSE,
              parts   |-> s.parts \o <<s.current, <<token>>>>,
              tokens  |-> [s.tokens EXCEPT
                             ![token.id]._add_eos_before = TRUE,
                             ![token.id]._add_eos_after = TRUE]]
        ELSE [s EXCEPT !.current = Append(@, token)]

\* the ELSE IF branch without "expect_condition = True" (mutation)
split_token_else_if_no_condition(statement, i, s) ==
    LET token    == statement[i]
        not_last == statement[i].id # Last(statement).id
    IN  IF s.expect_condition
        THEN [current |-> <<>>, expect_condition |-> FALSE,
              parts   |-> Append(s.parts, Append(s.current, token)),
              tokens  |-> IF not_last
                          THEN [s.tokens EXCEPT ![token.id]._add_eos_after = TRUE]
                          ELSE s.tokens]
        ELSE IF token.value = "IF"
        THEN [s EXCEPT !.current = Append(@, token), !.expect_condition = TRUE]
        ELSE IF normalize_whitespace(token.value) = Chars("ELSE IF")
        THEN [current |-> <<token>>, expect_condition |-> FALSE,
              parts   |-> Append(s.parts, s.current),
              tokens  |-> [s.tokens EXCEPT ![token.id]._add_eos_before = TRUE]]
        ELSE IF token.value = "ELSE"
        THEN [current |-> <<>>, expect_condition |-> FALSE,
              parts   |-> s.parts \o <<s.current, <<token>>>>,
              tokens  |-> [s.tokens EXCEPT
                             ![token.id]._add_eos_before = TRUE,
                             ![token.id]._add_eos_after = (not_last \/ @)]]
        ELSE [s EXCEPT !.current = Append(@, token)]

\* the ELSE branch without its "yield [token]" (mutation)
split_token_else_not_yielded(statement, i, s) ==
    LET token    == statement[i]
        not_last == statement[i].id # Last(statement).id
    IN  IF s.expect_condition
        THEN [current |-> <<>>, expect_condition |-> FALSE,
              parts   |-> Append(s.parts, Append(s.current, token)),
              tokens  |-> IF not_last
                          THEN [s.tokens EXCEPT ![token.id]._add_eos_after = TRUE]
                          ELSE s.tokens]
        ELSE IF token.value = "IF"
        THEN [s EXCEPT !.current = Append(@, token), !.expect_condition = TRUE]
        ELSE IF normalize_whitespace(token.value) = Chars("ELSE IF")
        THEN [current |-> <<token>>, expect_condition |-> TRUE,
              parts   |-> Append(s.parts, s.current),
              tokens  |-> [s.tokens EXCEPT ![token.id]._add_eos_before = TRUE]]
        ELSE IF token.value = "ELSE"
        THEN [current |-> <<>>, expect_condition |-> FALSE,
              parts   |-> Append(s.parts, s.current),
              tokens  |-> [s.tokens EXCEPT
                             ![token.id]._add_eos_before = TRUE,
                             ![token.id]._add_eos_after = (not_last \/ @)]]
        ELSE [s EXCEPT !.current = Append(@, token)]

\* the IF branch starting a new list with the IF token, the list accumulated
\* before it being yielded (mutation)
split_token_if_starts_new(statement, i, s) ==
    LET token    == statement[i]
        not_last == statement[i].id # Last(statement).id
    IN  IF s.expect_condition
        THEN [current |-> <<>>, expect_condition |-> FALSE,
              parts   |-> Append(s.parts, Append(s.current, token)),
              tokens  |-> IF not_last
                          THEN [s.tokens EXCEPT ![token.id]._add_eos_after = TRUE]
                          ELSE s.tokens]
        ELSE IF token.value = "IF"
        THEN [s EXCEPT !.current = <<token>>, !.expect_condition = TRUE,
                       !.parts = Append(@, s.current)]
        ELSE IF normalize_whitespace(token.value) = Chars("ELSE IF")
        THEN [current |-> <<token>>, expect_condition |-> TRUE,
              parts   |-> Append(s.parts, s.current),
              tokens  |-> [s.tokens EXCEPT ![token.id]._add_eos_before = TRUE]]
        ELSE IF token.value = "ELSE"
        THEN [current |-> <<>>, expect_condition |-> FALSE,
              parts   |-> s.parts \o <<s.current, <<token>>>>,
              tokens  |-> [s.tokens EXCEPT
                             ![token.id]._add_eos_before = TRUE,
                             ![token.id]._add_eos_after = (not_last \/ @)]]
        ELSE [s EXCEPT !.current = Append(@, token)]

\* one iteration of the for loop of _split, for token statement[i]; s holds
\* current, expect_condition, the lists yielded so far and the tokens
split_token(statement, i, s) ==
    LET token    == statement[i]
        not_last == statement[i].id # Last(statement).id
    IN  IF s.expect_condition
        THEN [current |-> <<>>, expect_condition |-> FALSE,
              parts   |-> Append(s.parts, Append(s.current, token)),
              tokens  |-> IF not_last
                          THEN [s.tokens EXCEPT ![token.id]._add_eos_after = TRUE]
                          ELSE s.tokens]
        ELSE IF token.value = "IF"
        THEN [s EXCEPT !.current = Append(@, token), !.expect_condition = TRUE]
        ELSE IF normalize_whitespace(token.value) = Chars("ELSE IF")
        THEN [current |-> <<token>>, expect_condition |-> TRUE,
              parts   |-> Append(s.parts, s.current),
              tokens  |-> [s.tokens EXCEPT ![token.id]._add_eos_before = TRUE]]
        ELSE IF token.value = "ELSE"
        THEN [current |-> <<>>, expect_condition |-> FALSE,
              parts   |-> s.parts \o <<s.current, <<token>>>>,
              tokens  |-> [s.tokens EXCEPT
                             ![token.id]._add_eos_before = TRUE,
                             ![token.id]._add_eos_after = (not_last \/ @)]]
        ELSE [s EXCEPT !.current = Append(@, token)]

\* the for loop of _split from token i on, and the final yield
RECURSIVE split_loop(_, _, _)
split_loop(statement, i, s) ==
    IF i > Len(statement)
    THEN [parts |-> Append(s.parts, s.current), tokens |-> s.tokens]
    ELSE Let(split_token(statement, i, s), LAMBDA next :
             split_loop(statement, i + 1, next))

\* the lists _split yields, in order, and the tokens after the scan.  The
\* generator is consumed to its end by InlineIfLexer.input and the children
\* it feeds read no marker, so the scan is modelled before the feeding.
_split(statement, toks) ==
    split_loop(statement, 1,
               [current |-> <<>>, expect_condition |-> FALSE, parts |-> <<>>,
                tokens |-> toks])

\* the for loop of InlineIfLexer.input from part i on; acc is the result of
\* the calls made so far
RECURSIVE input_parts(_, _, _)
input_parts(parts, i, acc) ==
    IF i > Len(parts) \/ acc.raised THEN acc
    ELSE IF parts[i] = <<>> THEN input_parts(parts, i + 1, acc)
    ELSE Let(BlockLexer_input(acc.self, parts[i], acc.tokens), LAMBDA r :
             input_parts(parts, i + 1,
                         [self |-> r.self, ret |-> "InlineIfLexer", tokens |-> r.tokens,
                          calls |-> acc.calls \o r.calls, raised |-> r.raised,
                          error |-> r.error]))

InlineIfLexer_input(self, statement, toks) ==
    Let(_split(statement, toks), LAMBDA s :
        input_parts(s.parts, 1,
                    [self |-> self, ret |-> "InlineIfLexer", tokens |-> s.tokens,
                     calls |-> <<>>, raised |-> FALSE, error |-> NoError]))

\* lexer.input(statement), by the class of lexer
input(self, statement, toks) ==
    Let(<<self, statement, toks>>, LAMBDA a :
        CASE a[1].cls \in TestOrKeywordLexers -> TestOrKeywordLexer_input(a[1], a[2], a[3])
          [] a[1].cls \in NestedBlockLexers   -> NestedBlockLexer_input(a[1], a[2], a[3])
          [] a[1].cls = "InlineIfLexer"       -> InlineIfLexer_input(a[1], a[2], a[3])
          [] a[1].cls \in SectionLexers \cup {"FileLexer", "BlockLexer"}
                                              -> BlockLexer_input(a[1], a[2], a[3])
          [] OTHER -> [self |-> StatementLexer_input(a[1], a[2]), ret |-> "None",
                       tokens |-> a[3], calls |-> <<>>, raised |-> FALSE,
                       error |-> NoError])

(***************************************************************************)
(* The driver: statements are fed one at a time to the root FileLexer.     *)
(***************************************************************************)
NoTokens == [id \in {} |-> Token("")]

\* the state after feeding the texts vs as the n-th statement
Fed(root, toks, n, vs) == input(root, Statement(n, vs), toks @@ NewTokens(n, vs))

\* root.input(statement) with a statement of the texts vs
Feed(vs) ==
    /\ \E r \in {Fed(tree, tokens, fed + 1, vs)} :
           /\ tree'   = r.self
           /\ tokens' = r.tokens
           /\ calls'  = r.calls
           /\ raised' = r.raised
           /\ error'  = r.error
    /\ fed' = fed + 1
    /\ UNCHANGED lexed

\* the driver feeds the next statement unless an exception has ended the run
Input(vs) == ~raised /\ Feed(vs)

\* the statements of a file: section headers, name lines, indented lines
FileStatements ==
    {<<"*Settings">>, <<"*Variables">>, <<"*Test Cases">>, <<"*Tasks">>,
     <<"*Keywords">>, <<"*Comments">>, <<"*Bogus">>,
     <<"Name">>, <<"Name", "Log">>, <<"", "Log">>, <<"", "">>,
     <<"", "FOR">>, <<"", "END">>, <<"", "[Setup]", "Log">>,
     <<"", "IF", "${x}", "Log">>}

Init ==
    /\ tree = New("FileLexer")
    /\ tokens = NoTokens
    /\ calls = <<>>
    /\ raised = FALSE
    /\ fed = 0
    /\ lexed = <<>>
    /\ error = NoError

Next == \E vs \in FileStatements : fed < MaxStatements /\ Input(vs)

Spec == Init /\ [][Next]_vars

(***************************************************************************)
(* A test or keyword body: the file so far is a test case or keyword       *)
(* section header and a name line, and body lines follow.                  *)
(***************************************************************************)
BodyStatements ==
    {<<"", "FOR">>, <<"", "WHILE">>, <<"", "TRY">>, <<"", "IF", "${x}">>,
     <<"", "END">>, <<"", "", "Log">>, <<"", "ELSE">>,
     <<"", "IF", "${x}", "Log">>, <<"Name">>}

Opened(header) ==
    Let(Fed(New("FileLexer"), NoTokens, 1, header), LAMBDA h :
        Fed(h.self, h.tokens, 2, <<"Name">>))

BodyInit ==
    \E r \in {Opened(<<"*Test Cases">>)} :
        /\ tree = r.self
        /\ tokens = r.tokens
        /\ calls = r.calls
        /\ raised = FALSE
        /\ fed = 2
        /\ lexed = <<>>
        /\ error = NoError

BodyNext == \E vs \in BodyStatements : fed < 2 + MaxBody /\ Input(vs)

BodySpec == BodyInit /\ [][BodyNext]_vars

(***************************************************************************)
(* One body line of a test made of any texts an inline IF is built from.   *)
(***************************************************************************)
InlineTexts == {"IF", "ELSE IF", "ELSE  IF", "ELSE", "Log", "${x}="}

\* the one-line conditional with all three clauses
InlineExamples == {<<"IF", "${x}", "ELSE IF", "${y}", "ELSE">>}

InlineStatements ==
    UNION {[1..n -> InlineTexts] : n \in 1..MaxInline} \cup InlineExamples

InlineInit == BodyInit

InlineNext == \E ts \in InlineStatements : fed = 2 /\ Input(<<"">> \o ts)

InlineSpec == InlineInit /\ [][InlineNext]_vars

(***************************************************************************)
(* Reading the tree.                                                       *)
(***************************************************************************)
\* the paths (child indices from the root) of all lexers below and at node
RECURSIVE Paths(_)
Paths(node) ==
    {<<>>} \cup UNION {{<<i>> \o p : p \in Paths(node.lexers[i])} :
                       i \in 1..Len(node.lexers)}

RECURSIVE NodeAt(_, _)
NodeAt(node, p) ==
    IF p = <<>> THEN node ELSE NodeAt(node.lexers[p[1]], Tail(p))

IsPrefix(p, q) == Len(p) <= Len(q) /\ SubSeq(q, 1, Len(p)) = p

IsBlock(node) == node.cls \in BlockLexers

Ids(statement) == {statement[i].id : i \in 1..Len(statement)}

\* the ids of the tokens held by the statement lexers at and below node
RECURSIVE Owned(_)
Owned(node) ==
    Ids(node.statement) \cup UNION {Owned(node.lexers[i]) : i \in 1..Len(node.lexers)}

\* the statements of the calls in cs made on the lexer at path p, in order
RECURSIVE CallsAt(_, _)
CallsAt(cs, p) ==
    IF cs = <<>> THEN <<>>
    ELSE (IF cs[1].path = p THEN <<cs[1].statement>> ELSE <<>>) \o CallsAt(Tail(cs), p)

\* the lexer at path p before the step: the object itself, or the object as
\* constructed when the step created it
RECURSIVE HasPath(_, _)
HasPath(node, p) ==
    \/ p = <<>>
    \/ p[1] <= Len(node.lexers) /\ HasPath(node.lexers[p[1]], Tail(p))

Before(p) ==
    IF HasPath(tree, p) THEN NodeAt(tree, p) ELSE New(NodeAt(tree', p).cls)

\* the tokens of statement s that no lexer has removed from it in the step
Kept(s) == {id \in Ids(s) : tokens'[id].type = "unset"}

\* child n of the lexer new at path p is the one child that got statement s
DeliveredTo(new, p, n, s) ==
    LET child == new.lexers[n]
    IN  /\ Kept(s) \subseteq Owned(child)
        /\ \A m \in 1..Len(new.lexers) : m # n => Owned(new.lexers[m]) \cap Ids(s) = {}
        /\ CASE child.cls \in TestOrKeywordLexers -> child._name_seen
             [] child.cls = "InlineIfLexer" -> Owned(child) = Ids(s)
             [] IsBlock(child) -> CallsAt(calls', p \o <<n>>) = <<s>>
             [] OTHER -> child.statement = s

(***************************************************************************)
(* C1: every BlockLexer.input(statement) call on a composite delegates to  *)
(* the last child and leaves the child list as it is when there is a last  *)
(* child and it accepts the statement, and otherwise appends exactly one   *)
(* child and delegates to it; the statement reaches exactly one child.     *)
(* (An InlineIfLexer is called once per part in one step: its children     *)
(* are statement lexers, so every call appends.)                           *)
(***************************************************************************)
C1_Effect(old, new, p, ss) ==
    LET n0 == Len(old.lexers)
    IN  IF Len(ss) = 1
        THEN LET s    == ss[1]
                 more == n0 > 0 /\ accepts_more(old.lexers[n0], s)
                 n    == IF more THEN n0 ELSE n0 + 1
             IN  /\ Len(new.lexers) = n
                 /\ \A i \in 1..n0 : new.lexers[i].cls = old.lexers[i].cls
                 /\ \A i \in 1..(n - 1) : new.lexers[i] = old.lexers[i]
                 /\ DeliveredTo(new, p, n, s)
        ELSE /\ new.cls = "InlineIfLexer"
             /\ n0 = 0
             /\ Len(new.lexers) = Len(ss)
             /\ \A j \in 1..Len(ss) : new.lexers[j].statement = ss[j]

C1_Call(p) == C1_Effect(Before(p), NodeAt(tree', p), p, CallsAt(calls', p))

C1_Step == ~raised' /\ \A p \in {calls'[k].path : k \in 1..Len(calls')} : C1_Call(p)

C1_InputDelegatesOrAppends == [][C1_Step]_vars

\* the root, the section and the test each delegated a body line to their
\* last child, an open ForLexer, which appended a child for it
C1_Witness ==
    /\ Len(tree.lexers[1].lexers) = 2
    /\ Len(tree.lexers[1].lexers[2].lexers) = 1
    /\ tree.lexers[1].lexers[2].lexers[1].cls = "ForLexer"
    /\ Len(tree.lexers[1].lexers[2].lexers[1].lexers) = 2
    /\ Len(calls) = 4

(***************************************************************************)
(* C2: the child list of every composite is append-only, and a child that  *)
(* has a later sibling never receives another statement.                   *)
(***************************************************************************)
C2_Effect(old, new, p) ==
    LET n0 == Len(old.lexers)
    IN  /\ new.cls = old.cls
        /\ Len(new.lexers) >= n0
        /\ \A i \in 1..n0 : new.lexers[i].cls = old.lexers[i].cls
        /\ \A i \in 1..(n0 - 1) :
              /\ new.lexers[i] = old.lexers[i]
              /\ \A k \in 1..Len(calls') : ~IsPrefix(p \o <<i>>, calls'[k].path)

C2_Composite(p) ==
    HasPath(tree', p) /\ C2_Effect(NodeAt(tree, p), NodeAt(tree', p), p)

C2_Step == \A p \in Paths(tree) : IsBlock(NodeAt(tree, p)) => C2_Composite(p)

C2_ChildListAppendOnly == [][C2_Step]_vars

\* a test holds two children and a second test has been appended after it
C2_Witness ==
    /\ Len(tree.lexers) = 1
    /\ Len(tree.lexers[1].lexers) = 3
    /\ Len(tree.lexers[1].lexers[2].lexers) = 2

(***************************************************************************)
(* C3: a child created for a statement has the first class, in the order   *)
(* of the composite's lexer_classes(), whose handles accepts the           *)
(* statement.  At file level a header of a known section kind never        *)
(* becomes an error or implicit comment section, and in a test body a      *)
(* statement that InlineIfLexer handles never becomes a keyword call.      *)
(***************************************************************************)
FirstHandler(parent, cls, s) ==
    LET classes == lexer_classes(parent)
    IN  \E k \in 1..Len(classes) :
            /\ classes[k] = cls
            /\ handles(cls, s)
            /\ \A e \in 1..(k - 1) : ~handles(classes[e], s)

\* the calls ss on a composite appended one child each: each has the class
C3_Created(old, new, ss) ==
    Len(new.lexers) = Len(old.lexers) + Len(ss) =>
        \A j \in 1..Len(ss) :
            FirstHandler(new, new.lexers[Len(old.lexers) + j].cls, ss[j])

KnownHeaders ==
    {"*Settings", "*Variables", "*Test Cases", "*Tasks", "*Keywords", "*Comments"}

C3_Examples ==
    /\ \A i \in 1..Len(tree'.lexers) :
          tree'.lexers[i].cls \in {"ErrorSectionLexer", "ImplicitCommentSectionLexer"}
              => tree'.lexers[i].lexers[1].statement[1].value \notin KnownHeaders
    /\ \A p \in Paths(tree') :
          /\ p # <<>>
          /\ NodeAt(tree', p).cls = "KeywordCallLexer"
          /\ NodeAt(tree', SubSeq(p, 1, Len(p) - 1)).cls \in TestOrKeywordLexers
          => ~InlineIfLexer_handles(NodeAt(tree', p).statement)

C3_Step ==
    /\ \A p \in {calls'[k].path : k \in 1..Len(calls')} :
          C3_Created(Before(p), NodeAt(tree', p), CallsAt(calls', p))
    /\ C3_Examples

C3_FirstMatchingClassWins == [][C3_Step]_vars

\* an unknown header made an error section although the catch-all implicit
\* comment section handles it too, and a known header after it its own section
C3_Witness ==
    /\ Len(tree.lexers) = 2
    /\ tree.lexers[1].cls = "ErrorSectionLexer"
    /\ tree.lexers[2].cls = "KeywordSectionLexer"
    /\ Len(tree.lexers[2].lexers) = 2

(***************************************************************************)
(* The statements a lexer has absorbed, in order, as they were when they   *)
(* reached it: a statement lexer holds one, an InlineIfLexer holds the     *)
(* parts of one, any other composite holds those of its children.          *)
(***************************************************************************)
RECURSIVE Concat(_)
Concat(ss) == IF ss = <<>> THEN <<>> ELSE ss[1] \o Concat(Tail(ss))

RECURSIVE Absorbed(_)
Absorbed(node) ==
    IF ~IsBlock(node) THEN <<node.statement>>
    ELSE IF node.cls = "InlineIfLexer"
    THEN <<Concat([i \in 1..Len(node.lexers) |-> node.lexers[i].statement])>>
    ELSE Concat([i \in 1..Len(node.lexers) |-> Absorbed(node.lexers[i])])

\* +1 for a FOR, WHILE, TRY or multi-line IF header, -1 for END, else 0
Weight(s) ==
    IF s[1].value \in {"FOR", "WHILE", "TRY"} THEN 1
    ELSE IF s[1].value = "IF" /\ Len(s) <= 2 THEN 1
    ELSE IF s[1].value = "END" THEN -1
    ELSE 0

RECURSIVE Sum(_)
Sum(ss) == IF ss = <<>> THEN 0 ELSE Weight(ss[1]) + Sum(Tail(ss))

\* the last child of the last test of the section, when there is one
LastTest(root) == Last(Last(root.lexers).lexers)

HasOpenBlock(root) ==
    /\ LastTest(root).cls \in TestOrKeywordLexers
    /\ LastTest(root).lexers # <<>>
    /\ Last(LastTest(root).lexers).cls \in NestedBlockLexers

\* the statement fed is a body line: indentation, then something
IsBodyLine(s) == ~truthy(s[1].value) /\ \E i \in 1..Len(s) : truthy(s[i].value)

(***************************************************************************)
(* C4: a nested-block lexer accepts more exactly while the running sum     *)
(* over the statements it has absorbed (+1 per FOR, WHILE, TRY and         *)
(* multi-line IF header at any nesting level, -1 per END, 0 otherwise) is  *)
(* greater than zero, and while it does it absorbs every body line fed.    *)
(***************************************************************************)
C4_Balance(root) ==
    \A p \in Paths(root) :
        NodeAt(root, p).cls \in NestedBlockLexers =>
            (accepts_more(NodeAt(root, p), <<>>) <=> Sum(Absorbed(NodeAt(root, p))) > 0)

C4_Absorbs ==
    HasOpenBlock(tree) /\ IsBodyLine(calls'[1].statement) =>
        LET open == Last(LastTest(tree).lexers)
        IN  IF accepts_more(open, calls'[1].statement)
            THEN /\ Len(LastTest(tree').lexers) = Len(LastTest(tree).lexers)
                 /\ Owned(Last(LastTest(tree').lexers))
                        = Owned(open) \cup Kept(calls'[1].statement)
            ELSE /\ Len(LastTest(tree').lexers) = Len(LastTest(tree).lexers) + 1
                 /\ LastTest(tree').lexers[Len(LastTest(tree).lexers)] = open

C4_Step == C4_Balance(tree') /\ C4_Absorbs

C4_BlockAbsorbsUntilMatchingEnd == [][C4_Step]_vars

\* FOR, IF, END, END: the ForLexer absorbed the whole IF block and its own END
C4_Witness ==
    /\ HasOpenBlock(tree)
    /\ Last(LastTest(tree).lexers).cls = "ForLexer"
    /\ Last(LastTest(tree).lexers)._block_level = 0
    /\ Len(Absorbed(Last(LastTest(tree).lexers))) = 4
    /\ Last(LastTest(tree).lexers).lexers[2].cls = "IfLexer"
    /\ Len(Last(LastTest(tree).lexers).lexers[2].lexers) = 2

Front(p) == SubSeq(p, 1, Len(p) - 1)

\* the nested-block lexers of the tree under root, by path
NestedAt(root) == {p \in Paths(root) : NodeAt(root, p).cls \in NestedBlockLexers}

\* some call of the step was made on the lexer at p or on one below it
Reached(cs, p) == \E k \in 1..Len(cs) : IsPrefix(p, cs[k].path)

\* the parent of the closed lexer at p was given a statement to dispatch in
\* the step, with p its last child: it appended one child, which got it
C5_NewSibling(p) ==
    LET parent == NodeAt(tree, Front(p))
        after  == NodeAt(tree', Front(p))
    IN  CallsAt(calls', Front(p)) # <<>> /\ Last(p) = Len(parent.lexers) =>
            /\ Len(after.lexers) = Len(parent.lexers) + 1
            /\ Kept(CallsAt(calls', Front(p))[1]) \subseteq Owned(Last(after.lexers))
            /\ Owned(Last(after.lexers)) # {}

(***************************************************************************)
(* C5: _block_level of a nested-block lexer is never negative, it is       *)
(* positive when the lexer first shows in the tree, and once it is back at *)
(* zero the lexer refuses every later statement, is given none and is      *)
(* never changed, while its parent appends a new sibling for the next      *)
(* statement it dispatches.                                                *)
(***************************************************************************)
C5_Step ==
    /\ \A p \in NestedAt(tree') :
          /\ NodeAt(tree', p)._block_level >= 0
          /\ ~HasPath(tree, p) => NodeAt(tree', p)._block_level >= 1
    /\ \A p \in NestedAt(tree) :
          NodeAt(tree, p)._block_level = 0 =>
              /\ ~accepts_more(NodeAt(tree, p), calls'[1].statement)
              /\ ~Reached(calls', p)
              /\ NodeAt(tree', p) = NodeAt(tree, p)
              /\ C5_NewSibling(p)

C5_BlockLevelNeverNegative == [][C5_Step]_vars

\* FOR, END, then a body line: the closed ForLexer is followed by a sibling
C5_Witness ==
    /\ LastTest(tree).cls \in TestOrKeywordLexers
    /\ Len(LastTest(tree).lexers) >= 2
    /\ LastTest(tree).lexers[1].cls \in NestedBlockLexers
    /\ LastTest(tree).lexers[1]._block_level = 0
    /\ Len(LastTest(tree).lexers[1].lexers) = 2

\* the children of the root before the step are its first children after it
SectionsKept == SubSeq(tree'.lexers, 1, Len(tree.lexers)) = tree.lexers

\* the open section took the statement s: no child added to the root, the
\* earlier sections untouched, and s handed to the section's own dispatch
C6_Continues(s) ==
    LET n == Len(tree.lexers)
    IN  /\ Len(tree'.lexers) = n
        /\ SubSeq(tree'.lexers, 1, n - 1) = SubSeq(tree.lexers, 1, n - 1)
        /\ tree'.lexers[n].cls = tree.lexers[n].cls
        /\ CallsAt(calls', <<n>>) = <<s>>
        /\ Kept(s) \subseteq Owned(tree'.lexers[n])
        /\ Owned(tree'.lexers[n]) \ Owned(tree.lexers[n]) \subseteq Ids(s)

\* s opened a section: one child appended to the root, which took s, and
\* nothing given to the section that was open
C6_NewSection(s) ==
    LET n == Len(tree.lexers)
    IN  /\ Len(tree'.lexers) = n + 1
        /\ SectionsKept
        /\ tree'.lexers[n + 1].cls \in SectionLexers
        /\ CallsAt(calls', <<n + 1>>) = <<s>>
        /\ ~Reached(calls', <<n>>)
        /\ Owned(tree'.lexers[n + 1]) = Ids(s)

(***************************************************************************)
(* C6: at file level the open section is given every statement whose first *)
(* token does not start with '*', whatever else the statement holds, and a *)
(* statement whose first token starts with '*' is never given to it: the   *)
(* FileLexer appends a new section for it.                                 *)
(***************************************************************************)
C6_Step ==
    LET s == calls'[1].statement
    IN  /\ startswith(s[1].value, "*") => C6_NewSection(s)
        /\ ~startswith(s[1].value, "*") /\ tree.lexers # <<>> => C6_Continues(s)

C6_SectionEndsAtHeader == [][C6_Step]_vars

\* a setting section that took a FOR line and then gave way to a new section
C6_Witness ==
    /\ Len(tree.lexers) = 2
    /\ tree.lexers[1].cls = "SettingSectionLexer"
    /\ Len(tree.lexers[1].lexers) = 2
    /\ Len(tree.lexers[1].lexers[2].statement) = 2
    /\ tree.lexers[1].lexers[2].statement[2].value = "FOR"
    /\ tree.lexers[2].cls \in SectionLexers

\* none of the section predicates of the context holds for the statement
NoSectionPredicate(s) ==
    ~(\/ setting_section(s) \/ variable_section(s) \/ test_case_section(s)
      \/ task_section(s) \/ keyword_section(s) \/ comment_section(s))

\* child n of the section lexer is a statement lexer of class cls holding s
RoutedTo(section, n, cls, s) ==
    /\ Len(section.lexers) = n
    /\ section.lexers[n].cls = cls
    /\ section.lexers[n].statement = s

(***************************************************************************)
(* C7: a statement starting with '*' that no section predicate of the      *)
(* context recognises does not make FileLexer.input raise: it opens an     *)
(* ErrorSectionLexer whose ErrorSectionHeaderLexer gets it, and each later *)
(* statement up to the next one starting with '*' goes to a new            *)
(* CommentLexer inside that same error section.                            *)
(***************************************************************************)
C7_Step ==
    LET s == calls'[1].statement
        n == Len(tree.lexers)
    IN  /\ ~raised'
        /\ startswith(s[1].value, "*") /\ NoSectionPredicate(s) =>
              /\ Len(tree'.lexers) = n + 1
              /\ SectionsKept
              /\ tree'.lexers[n + 1].cls = "ErrorSectionLexer"
              /\ RoutedTo(tree'.lexers[n + 1], 1, "ErrorSectionHeaderLexer", s)
        /\ n > 0 /\ Last(tree.lexers).cls = "ErrorSectionLexer"
                 /\ ~startswith(s[1].value, "*") =>
              /\ Len(tree'.lexers) = n
              /\ tree'.lexers[n].cls = "ErrorSectionLexer"
              /\ SubSeq(tree'.lexers[n].lexers, 1, Len(tree.lexers[n].lexers))
                     = tree.lexers[n].lexers
              /\ RoutedTo(tree'.lexers[n], Len(tree.lexers[n].lexers) + 1, "CommentLexer", s)

C7_UnknownHeaderOpensErrorSection == [][C7_Step]_vars

\* *Bogus, then a line with a name and a FOR line: both lexed as comments
C7_Witness ==
    /\ Len(tree.lexers) = 1
    /\ tree.lexers[1].cls = "ErrorSectionLexer"
    /\ Len(tree.lexers[1].lexers) = 3
    /\ tree.lexers[1].lexers[1].cls = "ErrorSectionHeaderLexer"
    /\ tree.lexers[1].lexers[1].statement[1].value = "*Bogus"
    /\ tree.lexers[1].lexers[2].cls = "CommentLexer"
    /\ tree.lexers[1].lexers[3].cls = "CommentLexer"
    /\ ~raised

NameTypes == {TESTCASE_NAME, KEYWORD_NAME}

\* the test and keyword lexers the step created, by path
NewNamedBlocks ==
    {p \in Paths(tree') :
        NodeAt(tree', p).cls \in TestOrKeywordLexers /\ ~HasPath(tree, p)}

\* the token had the type before the step
HadType(id, type) == id \in DOMAIN tokens /\ tokens[id].type = type

\* the lexer created at p got s as its first statement: s[1] is the name
C8_FirstStatement(p, s) ==
    LET self == NodeAt(tree', p)
        name == s[1].id
    IN  /\ tokens'[name].type = name_type(self)
        /\ name \notin DOMAIN tokens
        /\ name \notin Owned(tree')
        /\ tokens'[name]._add_eos_after <=> Len(s) > 1
        /\ \A id \in DOMAIN tokens' :
              id # name /\ tokens'[id].type \in NameTypes => HadType(id, tokens'[id].type)
        /\ IF Len(s) > 1
           THEN /\ CallsAt(calls', p) = <<Tail(s)>>
                /\ Len(self.lexers) = 1
                /\ Owned(self) = Ids(Tail(s))
           ELSE /\ CallsAt(calls', p) = <<>>
                /\ self.lexers = <<>>

(***************************************************************************)
(* C8: the first token of the first statement a test or keyword lexer is   *)
(* given, and no other token, gets the name type of the lexer's class and  *)
(* leaves the statement; its _add_eos_after is set exactly when tokens     *)
(* follow it; what follows is dispatched once, as one statement, and       *)
(* nothing is dispatched when the name stood alone.  A token that has a    *)
(* name type keeps it and its markers.                                     *)
(***************************************************************************)
C8_Step ==
    /\ \A p \in NewNamedBlocks : C8_FirstStatement(p, calls'[1].statement)
    /\ NewNamedBlocks = {} =>
          \A id \in DOMAIN tokens' :
              tokens'[id].type \in NameTypes => HadType(id, tokens'[id].type)
    /\ \A id \in DOMAIN tokens :
          tokens[id].type \in NameTypes => tokens'[id] = tokens[id]

C8_FirstTokenIsTheName == [][C8_Step]_vars

\* a test named on a line of its own, then a test named on the line of its
\* first step
C8_Witness ==
    /\ Len(tree.lexers) = 1
    /\ tree.lexers[1].cls = "TestCaseSectionLexer"
    /\ Len(tree.lexers[1].lexers) = 3
    /\ tree.lexers[1].lexers[2].cls = "TestCaseLexer"
    /\ tree.lexers[1].lexers[2].lexers = <<>>
    /\ tokens[<<2, 1>>].type = TESTCASE_NAME
    /\ ~tokens[<<2, 1>>]._add_eos_after
    /\ Len(tree.lexers[1].lexers[3].lexers) = 1
    /\ tokens[<<3, 1>>].type = TESTCASE_NAME
    /\ tokens[<<3, 1>>]._add_eos_after
    /\ tokens[<<3, 2>>].type = "unset"

NamedSections == {"TestCaseSectionLexer", "TaskSectionLexer", "KeywordSectionLexer"}

\* the open section holds tests, tasks or keywords and s is not a header
AtSectionLevel(s) ==
    /\ tree.lexers # <<>>
    /\ Last(tree.lexers).cls \in NamedSections
    /\ ~startswith(s[1].value, "*")

\* the section appended a TestCaseLexer or KeywordLexer in the step
StartsNamedBlock ==
    LET before == Last(tree.lexers).lexers
        after  == Last(tree'.lexers).lexers
    IN  /\ Len(tree'.lexers) = Len(tree.lexers)
        /\ Len(after) = Len(before) + 1
        /\ SubSeq(after, 1, Len(before)) = before
        /\ Last(after).cls = IF Last(tree.lexers).cls = "KeywordSectionLexer"
                             THEN "KeywordLexer" ELSE "TestCaseLexer"

\* the named block that was open took the statement s
AbsorbedByOpenBlock(s) ==
    LET before == Last(tree.lexers).lexers
        after  == Last(tree'.lexers).lexers
    IN  /\ Len(tree'.lexers) = Len(tree.lexers)
        /\ Len(after) = Len(before)
        /\ Last(before).cls \in TestOrKeywordLexers
        /\ Last(after).cls = Last(before).cls
        /\ SubSeq(after, 1, Len(before) - 1) = SubSeq(before, 1, Len(before) - 1)
        /\ Kept(s) \subseteq Owned(Last(after))
        /\ Owned(Last(after)) \ Owned(Last(before)) \subseteq Ids(s)

\* a test or keyword lexer is the last child of the open section
NamedBlockOpen == Last(Last(tree.lexers).lexers).cls \in TestOrKeywordLexers

(***************************************************************************)
(* C9 as stated: in a test-case, task or keyword section a statement that  *)
(* is not a header starts a new named block when its first token has       *)
(* non-empty text, and when its first token has empty text it never does:  *)
(* the named block opened before absorbs it.                               *)
(***************************************************************************)
C9_StatedStep ==
    LET s == calls'[1].statement
    IN  AtSectionLevel(s) =>
            IF truthy(s[1].value) THEN StartsNamedBlock
            ELSE ~StartsNamedBlock /\ AbsorbedByOpenBlock(s)

C9_NewBlockExactlyOnNonBlankFirstToken == [][C9_StatedStep]_vars

(***************************************************************************)
(* C9 amended: in a test-case, task or keyword section a statement that is *)
(* not a header starts a new named block when its first token has          *)
(* non-empty text, and also when its first token has empty text and no     *)
(* named block is open (the statement comes right after the section        *)
(* header); a statement whose first token has empty text is absorbed by    *)
(* the open named block when there is one.                                 *)
(***************************************************************************)
C9_Step ==
    LET s == calls'[1].statement
    IN  AtSectionLevel(s) =>
            IF truthy(s[1].value) \/ ~NamedBlockOpen THEN StartsNamedBlock
            ELSE ~StartsNamedBlock /\ AbsorbedByOpenBlock(s)

C9_NewBlockOnNameOrAfterHeader == [][C9_Step]_vars

\* *Test Cases, an indented Log line, a line with a name: the indented line
\* opened a test named by its empty token, the name line opened the next
C9_Witness ==
    /\ Len(tree.lexers) = 1
    /\ tree.lexers[1].cls \in NamedSections
    /\ Len(tree.lexers[1].lexers) = 3
    /\ tree.lexers[1].lexers[2].cls \in TestOrKeywordLexers
    /\ tree.lexers[1].lexers[3].cls \in TestOrKeywordLexers
    /\ tokens[<<2, 1>>].value = ""
    /\ tokens[<<2, 1>>].type \in NameTypes
    /\ tokens[<<3, 1>>].value = "Name"
    /\ tokens[<<3, 1>>].type \in NameTypes

\* the InlineIfLexers the step created, by path
NewInlineIfs ==
    {p \in Paths(tree') : NodeAt(tree', p).cls = "InlineIfLexer" /\ ~HasPath(tree, p)}

NonEmpty(part) == part # <<>>

\* the statements held by the children of a composite, in order
ChildStatements(self) == [i \in 1..Len(self.lexers) |-> self.lexers[i].statement]

\* the InlineIfLexer created at p was given s by its parent's dispatch
C10_Split(p, s) ==
    LET self  == NodeAt(tree', p)
        parts == _split(s, tokens').parts
    IN  /\ Concat(parts) = s
        /\ CallsAt(calls', p) = SelectSeq(parts, NonEmpty)
        /\ ChildStatements(self) = SelectSeq(parts, NonEmpty)
        /\ \A i \in 1..Len(self.lexers) : ~IsBlock(self.lexers[i])
        /\ \A id \in Ids(s) :
              Cardinality({<<i, k>> \in (1..Len(self.lexers)) \X (1..Len(s)) :
                              /\ k <= Len(self.lexers[i].statement)
                              /\ self.lexers[i].statement[k].id = id}) = 1
        /\ Owned(self) = Ids(s)

(***************************************************************************)
(* C10: the lists _split yields for a statement given to                   *)
(* InlineIfLexer.input, put end to end in the order yielded, are the       *)
(* statement; each non-empty one is dispatched once, in that order, and    *)
(* gets a child of its own, so every token of the statement is held by     *)
(* exactly one child of the InlineIfLexer, once.                           *)
(***************************************************************************)
C10_Step ==
    \A p \in NewInlineIfs :
        /\ Len(CallsAt(calls', Front(p))) = 1
        /\ C10_Split(p, CallsAt(calls', Front(p))[1])

C10_SplitKeepsEveryToken == [][C10_Step]_vars

\* IF Log ELSE Log: _split yields [IF, Log], [], [ELSE] and [Log]
C10_Witness ==
    /\ fed = 3
    /\ LastTest(tree).lexers # <<>>
    /\ LastTest(tree).lexers[1].cls = "InlineIfLexer"
    /\ Len(LastTest(tree).lexers[1].lexers) = 3
    /\ LastTest(tree).lexers[1].lexers[1].statement[1].value = "IF"
    /\ Len(LastTest(tree).lexers[1].lexers[1].statement) = 2
    /\ LastTest(tree).lexers[1].lexers[2].statement[1].value = "ELSE"
    /\ Len(LastTest(tree).lexers[1].lexers[2].statement) = 1
    /\ Len(LastTest(tree).lexers[1].lexers[3].statement) = 1

\* the texts that read ELSE IF once runs of spaces are collapsed
ElseIfTexts == {"ELSE IF", "ELSE  IF"}

\* token i of statement s is in condition position: it follows an IF or an
\* ELSE IF token that is not itself in condition position
RECURSIVE InCondition(_, _)
InCondition(s, i) ==
    /\ i > 1
    /\ ~InCondition(s, i - 1)
    /\ s[i - 1].value \in {"IF"} \cup ElseIfTexts

\* the positions of s where an ELSE IF or an ELSE clause starts
ElseIfAt(s) == {i \in 1..Len(s) : s[i].value \in ElseIfTexts /\ ~InCondition(s, i)}
ElseAt(s)   == {i \in 1..Len(s) : s[i].value = "ELSE" /\ ~InCondition(s, i)}

\* the sub-statement sub holds no token that starts an ELSE IF or ELSE clause
BodyOnly(s, sub) ==
    \A k \in 1..Len(sub) : \A i \in ElseIfAt(s) \cup ElseAt(s) : sub[k].id # s[i].id

\* s given to an InlineIfLexer was dispatched as the sub-statements subs
C11_Clauses(s, subs) ==
    /\ ( /\ Len(s) = 5 /\ s[1].value = "IF" /\ s[3].value \in ElseIfTexts
         /\ s[5].value = "ELSE" )
           => subs = <<SubSeq(s, 1, 2), SubSeq(s, 3, 4), <<s[5]>>>>
    /\ \A i \in ElseIfAt(s) :
          \E k \in 1..Len(subs) :
              subs[k] = SubSeq(s, i, IF i < Len(s) THEN i + 1 ELSE i)
    /\ \A i \in ElseAt(s) : \E k \in 1..Len(subs) : subs[k] = <<s[i]>>
    /\ \A k \in 1..Len(subs) :
          \/ subs[k][1].id \in {s[i].id : i \in ElseIfAt(s) \cup ElseAt(s)}
          \/ BodyOnly(s, subs[k])

(***************************************************************************)
(* C11: IF ${x} ELSE IF ${y} ELSE on one line is dispatched as the three   *)
(* sub-statements [IF, ${x}], [ELSE IF, ${y}], [ELSE], in that order.  In  *)
(* general an ELSE IF token outside condition position starts a            *)
(* sub-statement made of it and the token after it, an ELSE token outside  *)
(* condition position is a sub-statement of its own, and the tokens        *)
(* between these clauses are in sub-statements apart from them.            *)
(***************************************************************************)
C11_Step ==
    \A p \in NewInlineIfs :
        C11_Clauses(CallsAt(calls', Front(p))[1], CallsAt(calls', p))

C11_InlineClausesAsBlockForm == [][C11_Step]_vars

\* IF ${x} ELSE IF ${y} ELSE was fed: three children, one per clause
C11_Witness ==
    /\ fed = 3
    /\ LastTest(tree).lexers # <<>>
    /\ LastTest(tree).lexers[1].cls = "InlineIfLexer"
    /\ Len(LastTest(tree).lexers[1].lexers) = 3
    /\ LastTest(tree).lexers[1].lexers[1].cls = "InlineIfHeaderLexer"
    /\ LastTest(tree).lexers[1].lexers[2].cls = "ElseIfHeaderLexer"
    /\ LastTest(tree).lexers[1].lexers[3].cls = "ElseHeaderLexer"
    /\ Len(LastTest(tree).lexers[1].lexers[2].statement) = 2
    /\ LastTest(tree).lexers[1].lexers[2].statement[2].value = "${y}"

\* the markers of the tokens of s after the step are those of the scan
C12_Markers(s) ==
    \A i \in 1..Len(s) :
        /\ tokens'[s[i].id]._add_eos_before <=> i \in ElseIfAt(s) \cup ElseAt(s)
        /\ tokens'[s[i].id]._add_eos_after <=>
              (InCondition(s, i) \/ i \in ElseAt(s)) /\ i < Len(s)

\* the tokens of the statements fed before keep their markers
C12_OthersKept ==
    \A id \in DOMAIN tokens :
        /\ tokens'[id]._add_eos_before = tokens[id]._add_eos_before
        /\ tokens'[id]._add_eos_after = tokens[id]._add_eos_after

(***************************************************************************)
(* C12: after _split has scanned a statement, _add_eos_before is set on    *)
(* the ELSE IF and ELSE tokens met outside condition position and on no    *)
(* other token, and _add_eos_after is set on the condition tokens and on   *)
(* the ELSE tokens met outside condition position that are not the last    *)
(* token of the statement, and on no other token.                          *)
(***************************************************************************)
C12_Step ==
    \A p \in NewInlineIfs :
        C12_Markers(CallsAt(calls', Front(p))[1]) /\ C12_OthersKept

C12_BoundaryMarkers == [][C12_Step]_vars

\* IF ${x}= ELSE Log: the condition and the ELSE are marked, the ELSE on
\* both sides; IF and the last token are not
C12_Witness ==
    /\ fed = 3
    /\ LastTest(tree).lexers # <<>>
    /\ LastTest(tree).lexers[1].cls = "InlineIfLexer"
    /\ DOMAIN tokens = {<<1, 1>>, <<2, 1>>} \cup {<<3, i>> : i \in 1..5}
    /\ tokens[<<3, 2>>].value = "IF"
    /\ ~tokens[<<3, 2>>]._add_eos_before /\ ~tokens[<<3, 2>>]._add_eos_after
    /\ ~tokens[<<3, 3>>]._add_eos_before /\ tokens[<<3, 3>>]._add_eos_after
    /\ tokens[<<3, 4>>].value = "ELSE"
    /\ tokens[<<3, 4>>]._add_eos_before /\ tokens[<<3, 4>>]._add_eos_after
    /\ ~tokens[<<3, 5>>]._add_eos_before /\ ~tokens[<<3, 5>>]._add_eos_after

(***************************************************************************)
(* lex.  Every lex operator returns the lex() calls made, in order, each   *)
(* with the path and the class of the lexer called.  What lex() of a       *)
(* statement lexer does to its tokens is not part of the block lexers.     *)
(***************************************************************************)
RECURSIVE lex(_, _)

\* isinstance(lexer, priority) for the two classes used as priority: the
\* class itself or, for SettingSectionLexer, its subclass KeywordSectionLexer
isinstance(cls, priority) ==
    \/ cls = priority
    \/ priority = "SettingSectionLexer" /\ cls = "KeywordSectionLexer"

\* lexer.lex() for the children of self picked by Wanted, in list order
lex_children(self, p, Wanted(_)) ==
    Concat([i \in 1..Len(self.lexers) |->
               IF Wanted(self.lexers[i].cls)
               THEN lex(self.lexers[i], p \o <<i>>) ELSE <<>>])

\* the setting lexers lexed first by every composite (mutation)
BlockLexer_lex_settings_first(self, p) ==
    lex_children(self, p, LAMBDA cls : cls = "TestOrKeywordSettingLexer")
    \o lex_children(self, p, LAMBDA cls : cls # "TestOrKeywordSettingLexer")

BlockLexer_lex(self, p) == lex_children(self, p, LAMBDA cls : TRUE)

\* the two loops run in the other order (mutation)
_lex_priority_last(self, p, priority) ==
    lex_children(self, p, LAMBDA cls : ~isinstance(cls, priority))
    \o lex_children(self, p, LAMBDA cls : isinstance(cls, priority))

_lex_with_priority(self, p, priority) ==
    lex_children(self, p, LAMBDA cls : isinstance(cls, priority))
    \o lex_children(self, p, LAMBDA cls : ~isinstance(cls, priority))

FileLexer_lex(self, p) == _lex_with_priority(self, p, "SettingSectionLexer")

\* the override left out, BlockLexer.lex inherited (mutation)
TestCaseLexer_lex_inherited(self, p) == lex_children(self, p, LAMBDA cls : TRUE)

TestCaseLexer_lex(self, p) == _lex_with_priority(self, p, "TestOrKeywordSettingLexer")

\* lexer.lex(), by the class of lexer
lex(self, p) ==
    <<[path |-> p, cls |-> self.cls]>> \o
    ( CASE self.cls = "FileLexer"     -> FileLexer_lex(self, p)
        [] self.cls = "TestCaseLexer" -> TestCaseLexer_lex(self, p)
        [] IsBlock(self)              -> BlockLexer_lex(self, p)
        [] OTHER                      -> <<>> )

\* the second phase: lex() is called on the root once all input is given
Lex ==
    /\ ~raised
    /\ lexed = <<>>
    /\ lexed' = lex(tree, <<>>)
    /\ UNCHANGED <<tree, tokens, calls, raised, fed, error>>

(***************************************************************************)
(* A file is fed statement by statement and then lexed.                    *)
(***************************************************************************)
LexNext ==
    \/ \E vs \in FileStatements : fed < MaxStatements /\ lexed = <<>> /\ Input(vs)
    \/ Lex

LexSpec == Init /\ [][LexNext]_vars

(***************************************************************************)
(* A plain BlockLexer, whose lexer_classes() is empty, is given statements *)
(* by a caller that catches the exception and goes on.                     *)
(***************************************************************************)
RaiseInit ==
    /\ tree = New("BlockLexer")
    /\ tokens = NoTokens
    /\ calls = <<>>
    /\ raised = FALSE
    /\ fed = 0
    /\ lexed = <<>>
    /\ error = NoError

RaiseNext == \E vs \in FileStatements : fed < MaxRaise /\ Feed(vs)

RaiseSpec == RaiseInit /\ [][RaiseNext]_vars

(***************************************************************************)
(* A test, task or keyword body is fed line by line and then the file is   *)
(* lexed.                                                                  *)
(***************************************************************************)
LexBodyStatements ==
    {<<"", "Log">>, <<"", "[Setup]", "Log">>, <<"", "FOR">>, <<"", "END">>, <<"Name">>}

LexBodyInit ==
    \E header \in {<<"*Test Cases">>, <<"*Tasks">>, <<"*Keywords">>} :
        \E r \in {Opened(header)} :
            /\ tree = r.self
            /\ tokens = r.tokens
            /\ calls = r.calls
            /\ raised = FALSE
            /\ fed = 2
            /\ lexed = <<>>
            /\ error = NoError

LexBodyNext ==
    \/ \E vs \in LexBodyStatements :
           fed < 2 + MaxLexBody /\ lexed = <<>> /\ Input(vs)
    \/ Lex

LexBodySpec == LexBodyInit /\ [][LexBodyNext]_vars

(***************************************************************************)
(* The lines of a test, task or keyword body, each any mix of empty and    *)
(* non-empty tokens.                                                       *)
(***************************************************************************)
IndentStatements == UNION {[1..n -> {"", "Log"}] : n \in 1..MaxIndent}

IndentInit == LexBodyInit

IndentNext == \E vs \in IndentStatements : fed < 2 + MaxIndentLines /\ Input(vs)

IndentSpec == IndentInit /\ [][IndentNext]_vars

(***************************************************************************)
(* Blocks left open: after a section header and a name line, block         *)
(* headers, END, body lines, name lines and section headers follow.        *)
(***************************************************************************)
ScopeStatements ==
    {<<"", "FOR">>, <<"", "IF", "${x}">>, <<"", "END">>, <<"", "Log">>,
     <<"Name">>, <<"*Keywords">>}

ScopeInit == LexBodyInit

ScopeNext == \E vs \in ScopeStatements : fed < 2 + MaxScope /\ Input(vs)

ScopeSpec == ScopeInit /\ [][ScopeNext]_vars

\* the lex() calls made on the children of the lexer at path p, in order
IsChildOf(p, c) == Len(c.path) = Len(p) + 1 /\ IsPrefix(p, c.path)

ChildOrder(p) ==
    LET cs == SelectSeq(lexed, LAMBDA c : IsChildOf(p, c))
    IN  [k \in 1..Len(cs) |-> Last(cs[k].path)]

\* order lists every child of self once, those of the classes in first
\* ahead of the others, and both groups in list order
PriorityOrder(self, order, first) ==
    /\ Len(order) = Len(self.lexers)
    /\ {order[k] : k \in 1..Len(order)} = 1..Len(self.lexers)
    /\ \A j, k \in 1..Len(order) :
          j < k =>
              IF (self.lexers[order[j]].cls \in first) = (self.lexers[order[k]].cls \in first)
              THEN order[j] < order[k]
              ELSE self.lexers[order[j]].cls \in first

(***************************************************************************)
(* C13 as stated: FileLexer.lex() calls lex() on every setting section     *)
(* before any section of another kind (variable, test case, task, keyword, *)
(* comment, error, implicit comment), and on those afterwards in document  *)
(* order.                                                                  *)
(***************************************************************************)
C13_SettingSectionsFirst ==
    lexed # <<>> => PriorityOrder(tree, ChildOrder(<<>>), {"SettingSectionLexer"})

(***************************************************************************)
(* C13 amended: FileLexer.lex() calls lex() on every setting section and   *)
(* every keyword section, in document order, before any section of another *)
(* kind (variable, test case, task, comment, error, implicit comment), and *)
(* on those afterwards in document order; every section is lexed once.     *)
(***************************************************************************)
C13_SettingAndKeywordSectionsFirst ==
    lexed # <<>> =>
        PriorityOrder(tree, ChildOrder(<<>>), {"SettingSectionLexer", "KeywordSectionLexer"})

\* test cases, keywords, settings: lexed in the order keywords, settings,
\* test cases
C13_Witness ==
    /\ Len(tree.lexers) = 3
    /\ tree.lexers[1].cls = "TestCaseSectionLexer"
    /\ tree.lexers[2].cls = "KeywordSectionLexer"
    /\ tree.lexers[3].cls = "SettingSectionLexer"
    /\ ChildOrder(<<>>) = <<2, 3, 1>>

\* the lexers of class cls in the tree, by path
LexersOf(cls) == {p \in Paths(tree) : NodeAt(tree, p).cls = cls}

\* a call child followed by a setting child, both of the lexer self
SettingAfterCall(self) ==
    /\ Len(self.lexers) = 2
    /\ self.lexers[1].cls = "KeywordCallLexer"
    /\ self.lexers[2].cls = "TestOrKeywordSettingLexer"

(***************************************************************************)
(* C14: TestCaseLexer.lex() calls lex() on every direct child that is a    *)
(* TestOrKeywordSettingLexer before any other direct child, also when the  *)
(* setting comes after a call in the document; every direct child is lexed *)
(* once, and the settings among them and the others among them keep their  *)
(* document order.                                                         *)
(***************************************************************************)
C14_TestSettingsLexedFirst ==
    lexed # <<>> =>
        \A p \in LexersOf("TestCaseLexer") :
            PriorityOrder(NodeAt(tree, p), ChildOrder(p), {"TestOrKeywordSettingLexer"})

\* a test with Log and then [Setup]: the setting is lexed first
C14_Witness ==
    /\ lexed # <<>>
    /\ tree.lexers[1].lexers[2].cls = "TestCaseLexer"
    /\ SettingAfterCall(tree.lexers[1].lexers[2])
    /\ ChildOrder(<<1, 2>>) = <<2, 1>>

(***************************************************************************)
(* C15 as stated: KeywordLexer.lex() calls lex() on every setting child    *)
(* before any other child, also when the setting comes after a call in the *)
(* document.                                                               *)
(***************************************************************************)
C15_KeywordSettingsLexedFirst ==
    lexed # <<>> =>
        \A p \in LexersOf("KeywordLexer") :
            PriorityOrder(NodeAt(tree, p), ChildOrder(p), {"TestOrKeywordSettingLexer"})

(***************************************************************************)
(* C15 amended: KeywordLexer.lex() calls lex() on every direct child once, *)
(* in document order: a setting that comes after a call in the document is *)
(* lexed after it.                                                         *)
(***************************************************************************)
C15_KeywordChildrenLexedInOrder ==
    lexed # <<>> =>
        \A p \in LexersOf("KeywordLexer") :
            PriorityOrder(NodeAt(tree, p), ChildOrder(p), {})

\* a keyword with Log and then [Setup]: the call is lexed first
C15_Witness ==
    /\ lexed # <<>>
    /\ tree.lexers[1].lexers[2].cls = "KeywordLexer"
    /\ SettingAfterCall(tree.lexers[1].lexers[2])
    /\ ChildOrder(<<1, 2>>) = <<1, 2>>

\* the composite self, given s, has no lexer for it: its last child, if
\* any, does not accept s and no class of lexer_classes() handles s
NoLexerFor(self, s) ==
    /\ self.lexers = <<>> \/ ~accepts_more(Last(self.lexers), s)
    /\ \A k \in 1..Len(lexer_classes(self)) : ~handles(lexer_classes(self)[k], s)

\* call k of the step failed: it is the last call, the error names the
\* composite and the statement, and the composite is as it was, with no
\* child added, no call below it and its _block_level kept
C16_Failed(k) ==
    LET p == calls'[k].path
        s == calls'[k].statement
    IN  /\ k = Len(calls')
        /\ raised'
        /\ error' = [type |-> "TypeError", name |-> Before(p).cls, statement |-> s]
        /\ NodeAt(tree', p) = Before(p)
        /\ Len(NodeAt(tree', p).lexers) = Len(Before(p).lexers)
        /\ NodeAt(tree', p)._block_level = Before(p)._block_level
        /\ \A j \in 1..Len(calls') : j # k => ~IsPrefix(p, calls'[j].path)
        /\ \A id \in Ids(s) : id \notin Owned(NodeAt(tree', p))

(***************************************************************************)
(* C16: when the last child of a composite does not accept a statement, or *)
(* it has no child, and no class of its lexer_classes() handles the        *)
(* statement, BlockLexer.input ends by a TypeError naming the composite    *)
(* and the statement and leaves the composite as it was: no child is       *)
(* appended, no child is given the statement and _block_level keeps its    *)
(* value.  No TypeError is raised otherwise.                               *)
(***************************************************************************)
C16_Step ==
    /\ \A k \in 1..Len(calls') :
          NoLexerFor(Before(calls'[k].path), calls'[k].statement) => C16_Failed(k)
    /\ error'.type = "TypeError" =>
          /\ calls' # <<>>
          /\ NoLexerFor(Before(Last(calls').path), Last(calls').statement)
    /\ raised' <=> error'.type = "TypeError"

C16_NoLexerRaisesTypeError == [][C16_Step]_vars

\* a BlockLexer that has twice been given a statement it has no lexer for
C16_Witness ==
    /\ tree = New("BlockLexer")
    /\ fed = 2
    /\ raised
    /\ error.type = "TypeError"
    /\ error.name = "BlockLexer"
    /\ Len(error.statement) = 2
    /\ error.statement[1].id = <<2, 1>>

HeaderLexers == {"ForHeaderLexer", "IfHeaderLexer", "TryHeaderLexer", "WhileHeaderLexer"}

\* the number of direct children of self whose class is in classes
CountChildren(self, classes) ==
    Cardinality({i \in 1..Len(self.lexers) : self.lexers[i].cls \in classes})

(***************************************************************************)
(* C17 as stated: _block_level of a nested-block lexer is the number of    *)
(* FOR, IF, TRY and WHILE headers minus the number of ENDs among all the   *)
(* statements the lexer has absorbed, whichever lexer below it owns them,  *)
(* a child block lexer of another kind included.                           *)
(***************************************************************************)
C17_LevelCountsAllAbsorbed ==
    \A p \in NestedAt(tree) :
        NodeAt(tree, p)._block_level = Sum(Absorbed(NodeAt(tree, p)))

(***************************************************************************)
(* C17 amended: _block_level of a nested-block lexer is the number of      *)
(* header lexers minus the number of END lexers among its direct children: *)
(* a statement counts when the lexer's own dispatch hands it to a new      *)
(* header or END lexer, and does not when it goes to a child block lexer,  *)
(* which counts it in its own _block_level.                                *)
(***************************************************************************)
C17_LevelCountsDirectChildren ==
    \A p \in NestedAt(tree) :
        NodeAt(tree, p)._block_level =
            CountChildren(NodeAt(tree, p), HeaderLexers)
            - CountChildren(NodeAt(tree, p), {"EndLexer"})

\* FOR, IF and two lines inside the IF that leave it open: the ForLexer has
\* absorbed two headers more than ENDs and counts 1, as the IfLexer in it does
C17_Witness ==
    /\ HasOpenBlock(tree)
    /\ Last(LastTest(tree).lexers).cls = "ForLexer"
    /\ Last(LastTest(tree).lexers)._block_level = 1
    /\ Len(Last(LastTest(tree).lexers).lexers) = 2
    /\ Last(LastTest(tree).lexers).lexers[2].cls = "IfLexer"
    /\ Last(LastTest(tree).lexers).lexers[2]._block_level = 1
    /\ Sum(Absorbed(Last(LastTest(tree).lexers))) = 2
    /\ Len(Absorbed(Last(LastTest(tree).lexers))) = 4

\* the length of the longest run of tokens with empty text s starts with
RECURSIVE LeadingBlanks(_)
LeadingBlanks(s) ==
    IF s # <<>> /\ s[1].value = "" THEN 1 + LeadingBlanks(Tail(s)) ELSE 0

\* the test or keyword lexer at p had its name and is given s by its section
ReceivesBodyLine(p, s) ==
    /\ p # <<>>
    /\ HasPath(tree, p)
    /\ NodeAt(tree, p).cls \in TestOrKeywordLexers
    /\ NodeAt(tree, p)._name_seen
    /\ CallsAt(calls', Front(p)) = <<s>>
    /\ Last(p) = Len(NodeAt(tree, Front(p)).lexers)
    /\ accepts_more(NodeAt(tree, p), s)

C18_Indentation(p, s) ==
    LET k    == LeadingBlanks(s)
        rest == SubSeq(s, k + 1, Len(s))
    IN  /\ \A i \in 1..Len(s) :
              /\ tokens'[s[i].id].type = IF i <= k THEN "None" ELSE "unset"
              /\ i <= k => s[i].id \notin Owned(tree')
              /\ i > k => s[i].id \in Owned(NodeAt(tree', p))
        /\ IF rest # <<>>
           THEN CallsAt(calls', p) = <<rest>>
           ELSE /\ CallsAt(calls', p) = <<>>
                /\ ~Reached(calls', p)
                /\ NodeAt(tree', p) = NodeAt(tree, p)

(***************************************************************************)
(* C18: on every statement a test or keyword lexer is given after its      *)
(* first, the longest run of leading tokens with empty text is taken out   *)
(* of the statement and each of them gets type None; the tokens from the   *)
(* first non-empty one on, empty ones among them included, are untouched   *)
(* and are dispatched as the body statement; a statement of empty tokens   *)
(* only is dispatched to no child and adds no child.                       *)
(***************************************************************************)
C18_Step ==
    \A p \in Paths(tree) :
        ReceivesBodyLine(p, calls'[1].statement) => C18_Indentation(p, calls'[1].statement)

C18_LeadingBlanksIgnored == [][C18_Step]_vars

\* a line of three empty tokens, then an empty token, Log and an empty token
C18_Witness ==
    /\ fed = 4
    /\ {<<3, 3>>, <<4, 3>>} \subseteq DOMAIN tokens
    /\ Len(LastTest(tree).lexers) = 1
    /\ \A i \in 1..3 : tokens[<<3, i>>].value = "" /\ tokens[<<3, i>>].type = "None"
    /\ tokens[<<4, 1>>].type = "None"
    /\ Len(LastTest(tree).lexers[1].statement) = 2
    /\ LastTest(tree).lexers[1].statement[1].id = <<4, 2>>
    /\ LastTest(tree).lexers[1].statement[2].id = <<4, 3>>
    /\ tokens[<<4, 3>>].value = ""
    /\ tokens[<<4, 3>>].type = "unset"

\* the positions of s where an IF token stands outside condition position
IfAt(s) == {i \in 1..Len(s) : s[i].value = "IF" /\ ~InCondition(s, i)}

\* the position after the last token emitted before position i of s: a
\* condition token and an ELSE token end an emission, an ELSE IF token
\* starts the next one
RECURSIVE ClauseStart(_, _)
ClauseStart(s, i) ==
    IF i = 1 THEN 1
    ELSE IF InCondition(s, i - 1) \/ (i - 1) \in ElseAt(s) THEN i
    ELSE IF (i - 1) \in ElseIfAt(s) THEN i - 1
    ELSE ClauseStart(s, i - 1)

\* the end of the sub-statement of the IF at i: its condition, if it has one
ClauseEnd(s, i) == IF i < Len(s) THEN i + 1 ELSE i

(***************************************************************************)
(* C19 as stated: for every IF token outside condition position that has   *)
(* a token after it, one of the sub-statements dispatched is exactly the   *)
(* IF token followed by its condition token.                               *)
(***************************************************************************)
C19_OriginalStep ==
    \A p \in NewInlineIfs :
        LET s    == CallsAt(calls', Front(p))[1]
            subs == CallsAt(calls', p)
        IN  \A i \in IfAt(s) :
                i < Len(s) => \E k \in 1..Len(subs) : subs[k] = <<s[i], s[i + 1]>>

C19_IfStartsNewSubStatement == [][C19_OriginalStep]_vars

(***************************************************************************)
(* C19: an IF token outside condition position is appended to the          *)
(* sub-statement being accumulated: the sub-statement dispatched for it    *)
(* is the tokens accumulated since the last emission (assignments before   *)
(* a leading IF, body tokens of a previous clause), then the IF token,     *)
(* then its condition token; it is exactly IF and its condition only when  *)
(* nothing was accumulated.                                                *)
(***************************************************************************)
C19_Step ==
    \A p \in NewInlineIfs :
        LET s    == CallsAt(calls', Front(p))[1]
            subs == CallsAt(calls', p)
        IN  \A i \in IfAt(s) :
                /\ \E k \in 1..Len(subs) :
                       subs[k] = SubSeq(s, ClauseStart(s, i), ClauseEnd(s, i))
                /\ \A k \in 1..Len(subs) :
                       (\E n \in 1..Len(subs[k]) : subs[k][n].id = s[i].id)
                           => subs[k] = SubSeq(s, ClauseStart(s, i), ClauseEnd(s, i))

C19_IfJoinsAccumulated == [][C19_Step]_vars

\* ${x}= IF Log Log was fed: the first child holds ${x}=, IF and the condition
C19_Witness ==
    /\ fed = 3
    /\ LastTest(tree).lexers # <<>>
    /\ LastTest(tree).lexers[1].cls = "InlineIfLexer"
    /\ Len(LastTest(tree).lexers[1].lexers) = 2
    /\ LastTest(tree).lexers[1].lexers[1].cls = "InlineIfHeaderLexer"
    /\ Len(LastTest(tree).lexers[1].lexers[1].statement) = 3
    /\ LastTest(tree).lexers[1].lexers[1].statement[1].value = "${x}="
    /\ LastTest(tree).lexers[1].lexers[1].statement[2].value = "IF"

\* the nested-block lexers of root that still accept statements, by path
OpenBlocks(root) == {p \in NestedAt(root) : NodeAt(root, p)._block_level > 0}

\* the lexer at p is after the step what it was before, and got no statement
Untouched(p) ==
    /\ ~Reached(calls', p)
    /\ HasPath(tree', p)
    /\ NodeAt(tree', p) = NodeAt(tree, p)

\* the test or keyword being filled has a block open at some depth
BlockLeftOpen ==
    /\ tree.lexers # <<>>
    /\ Last(tree.lexers).lexers # <<>>
    /\ LastTest(tree).cls \in TestOrKeywordLexers
    /\ \E p \in OpenBlocks(tree) :
           IsPrefix(<<Len(tree.lexers), Len(Last(tree.lexers).lexers)>>, p)

\* s went to a test or keyword lexer created for it in the current section
C20_NewTestOrKeyword(s) ==
    /\ Len(tree'.lexers) = Len(tree.lexers)
    /\ SubSeq(Last(tree'.lexers).lexers, 1, Len(Last(tree.lexers).lexers))
           = Last(tree.lexers).lexers
    /\ Len(Last(tree'.lexers).lexers) = Len(Last(tree.lexers).lexers) + 1
    /\ LastTest(tree').cls = LastTest(tree).cls
    /\ LastTest(tree')._name_seen
    /\ tokens'[s[1].id].type \in NameTypes
    /\ Owned(LastTest(tree')) = Ids(Tail(s))

\* s went to a section created for it
C20_NewSection(s) ==
    /\ SectionsKept
    /\ Len(tree'.lexers) = Len(tree.lexers) + 1
    /\ Last(tree'.lexers).cls \in SectionLexers
    /\ Owned(Last(tree'.lexers)) = Ids(s)

(***************************************************************************)
(* C20: when the test or keyword being filled has nested-block lexers      *)
(* open at any depth, a statement whose first token is non-empty goes to   *)
(* a test or keyword lexer created for it in the current section, or, if   *)
(* that token starts with "*", to a section created for it; the open       *)
(* block lexers get no statement in that step, and no lexer outside the    *)
(* last test or keyword of the last section gets one in any later step.    *)
(***************************************************************************)
C20_Step ==
    LET s == calls'[1].statement
    IN  /\ BlockLeftOpen /\ truthy(s[1].value) =>
              /\ \A p \in OpenBlocks(tree) : Untouched(p)
              /\ IF startswith(s[1].value, "*")
                 THEN C20_NewSection(s)
                 ELSE C20_NewTestOrKeyword(s)
        /\ \A p \in NestedAt(tree) :
              ~IsPrefix(<<Len(tree.lexers), Len(Last(tree.lexers).lexers)>>, p)
                  => Untouched(p)

C20_OpenBlockEndsWithScope == [][C20_Step]_vars

\* FOR, FOR, a name line, FOR and a section header were fed: the first test
\* holds a block open at depth two, the second one a block open at depth
\* one, and the header made a second section
C20_Witness ==
    /\ fed = 7
    /\ Len(tree.lexers) = 2
    /\ Len(tree.lexers[1].lexers) = 3
    /\ tree.lexers[1].lexers[2].cls \in TestOrKeywordLexers
    /\ tree.lexers[1].lexers[3].cls \in TestOrKeywordLexers
    /\ <<1, 2, 1, 2>> \in OpenBlocks(tree)
    /\ <<1, 2, 1>> \in OpenBlocks(tree)
    /\ <<1, 3, 1>> \in OpenBlocks(tree)
    /\ tree.lexers[2].cls = "KeywordSectionLexer"

====
